---- MODULE Spec2Model ----
(***************************************************************************)
(* The react-refresh syntax-tree transformer of                            *)
(* src/tsc/transform-react-refresh.ts (class RefreshTransformer).          *)
(*                                                                         *)
(* Source text is modelled as a sequence of one-character strings, so that *)
(* charAt, startsWith, includes and string concatenation are computed      *)
(* character by character as the code computes them.  A syntax-tree node   *)
(* is a record with a "kind" field; getText of a node is its "text".       *)
(***************************************************************************)
EXTENDS Integers, Sequences, FiniteSets, TLC

VARIABLES
    sf,                 \* #sf: the input source file (its top-level statements)
    pc,                 \* position of transform(): scan, register, declare, map, done, threw
    idx,                \* index of the next element of the running forEach / map
    statements,         \* transform(): const statements
    components,         \* transform(): const components
    signatures,         \* transform(): const signatures
    hookCalls,          \* transform(): const hookCalls (keyed by function node identity)
    seenHooks,          \* transform(): const seenHooks
    nextAutoGenerateId, \* the factory's counter behind createUniqueName
    out,                \* the statements of the returned source file
    fnNode,             \* argument of a stand-alone _getHookCallsSignature call
    hookCallsSignature  \* its result

vars == <<sf, pc, idx, statements, components, signatures, hookCalls, seenHooks,
          nextAutoGenerateId, out, fnNode, hookCallsSignature>>

transformVars == <<sf, pc, idx, statements, components, signatures, hookCalls,
                   seenHooks, nextAutoGenerateId, out>>

analyzerVars == <<fnNode, hookCallsSignature>>

-----------------------------------------------------------------------------
(* Bounds of the checked input space *)

\* Largest number of top-level statements of an input module
MaxStmts == 2

\* Largest number of direct statements of an analysed function body
MaxBody == 3

-----------------------------------------------------------------------------
(* Text *)

refreshSig == <<"$", "R", "e", "f", "r", "e", "s", "h", "S", "i", "g", "$">>
refreshReg == <<"$", "R", "e", "f", "r", "e", "s", "h", "R", "e", "g", "$">>
str_use == <<"u", "s", "e">>
str_refresh_reset == <<"@", "r", "e", "f", "r", "e", "s", "h", " ", "r", "e", "s", "e", "t">>
str_s == <<"_", "s">>
str_useState == <<"u", "s", "e", "S", "t", "a", "t", "e">>
str_useReducer == <<"u", "s", "e", "R", "e", "d", "u", "c", "e", "r">>
str_useEffect == <<"u", "s", "e", "E", "f", "f", "e", "c", "t">>
str_useLayoutEffect == <<"u", "s", "e", "L", "a", "y", "o", "u", "t", "E", "f", "f", "e", "c", "t">>
str_useMemo == <<"u", "s", "e", "M", "e", "m", "o">>
str_useCallback == <<"u", "s", "e", "C", "a", "l", "l", "b", "a", "c", "k">>
str_useRef == <<"u", "s", "e", "R", "e", "f">>
str_useContext == <<"u", "s", "e", "C", "o", "n", "t", "e", "x", "t">>
str_useImperativeMethods == <<"u", "s", "e", "I", "m", "p", "e", "r", "a", "t", "i", "v", "e", "M", "e", "t", "h", "o", "d", "s">>
str_useDebugValue == <<"u", "s", "e", "D", "e", "b", "u", "g", "V", "a", "l", "u", "e">>
str_ReactDot == <<"R", "e", "a", "c", "t", ".">>
str_useMyHook == <<"u", "s", "e", "M", "y", "H", "o", "o", "k">>
str_useOther == <<"u", "s", "e", "O", "t", "h", "e", "r">>
str_Counter == <<"C", "o", "u", "n", "t", "e", "r">>
str_App == <<"A", "p", "p">>
str_Tip == <<"T", "i", "p">>
str_helper == <<"h", "e", "l", "p", "e", "r">>
str_user == <<"u", "s", "e", "r">>
str_React == <<"R", "e", "a", "c", "t">>
str_hooks == <<"h", "o", "o", "k", "s">>
str_nsetN == <<"[", "n", ",", "s", "e", "t", "N", "]">>
str_ab == <<"[", "a", ",", "b", "]">>
str_0 == <<"0">>
str_1 == <<"1">>
str_f == <<"f">>
str_g == <<"g">>
str_r == <<"r">>
str_init == <<"i", "n", "i", "t">>
str_a == <<"a">>
str_b == <<"b">>
str_v == <<"v">>
cmt_block_reset == <<"/", "*", " ", "@", "r", "e", "f", "r", "e", "s", "h", " ", "r", "e", "s", "e", "t", " ", "*", "/">>
cmt_plain == <<"/", "/", " ", "e", "s", "l", "i", "n", "t", "-", "d", "i", "s", "a", "b", "l", "e">>
cmt_refresh_only == <<"/", "*", " ", "@", "r", "e", "f", "r", "e", "s", "h", " ", "*", "/">>

\* The characters c with c >= 'A' && c <= 'Z'
UpperCase == {"A", "B", "C", "D", "E", "F", "G", "H", "I", "J", "K", "L", "M",
              "N", "O", "P", "Q", "R", "S", "T", "U", "V", "W", "X", "Y", "Z"}

\* String.prototype.charAt: the one-character string at 0-based index k, or ''
charAt(s, k) == IF k >= 0 /\ k < Len(s) THEN <<s[k + 1]>> ELSE <<>>

\* String.prototype.startsWith
startsWith(s, p) == Len(s) >= Len(p) /\ SubSeq(s, 1, Len(p)) = p

\* String.prototype.includes
includes(s, p) == \E k \in 1..(Len(s) - Len(p) + 1) : SubSeq(s, k, k + Len(p) - 1) = p

\* Array.prototype.join of a sequence of strings
RECURSIVE join(_, _)
join(ss, sep) ==
    IF ss = <<>> THEN <<>>
    ELSE IF Len(ss) = 1 THEN ss[1]
    ELSE ss[1] \o sep \o join(Tail(ss), sep)

\* Array.prototype.flat of a sequence of sequences
RECURSIVE flat(_)
flat(ss) == IF ss = <<>> THEN <<>> ELSE Head(ss) \o flat(Tail(ss))

\* Array.prototype.map over a sequence
map(ss, Op(_)) == [k \in 1..Len(ss) |-> Op(ss[k])]

-----------------------------------------------------------------------------
(* Syntax-tree nodes *)

\* undefined / null
undefined == [kind |-> "undefined"]
null == [kind |-> "null"]

Identifier(text) == [kind |-> "Identifier", text |-> text]

\* A binding pattern ([a,b] or {a,b}) used as a declaration name
BindingPattern(text) == [kind |-> "ArrayBindingPattern", text |-> text]

\* Any expression the transformer does not look into
Expression(text) == [kind |-> "Expression", text |-> text]

PropertyAccessExpression(object, name) ==
    [kind |-> "PropertyAccessExpression", expression |-> Identifier(object),
     name |-> Identifier(name)]

\* A call expression; parent is filled in by the node that holds it
CallExpression(callee, args) ==
    [kind |-> "CallExpression", expression |-> callee, arguments |-> args,
     parent |-> undefined]

\* node.parent, as far as the transformer reads it: the parent's kind and name
ParentRef(kind, name) == [kind |-> kind, name |-> name]

withParent(node, parent) ==
    IF node.kind = "CallExpression" THEN [node EXCEPT !.parent = parent] ELSE node

VariableDeclaration(name, initializer) ==
    [kind |-> "VariableDeclaration", name |-> name,
     initializer |-> withParent(initializer, ParentRef("VariableDeclaration", name))]

\* A variable statement inside a function body
BodyVariableStatement(declarations) ==
    [kind |-> "VariableStatement", declarations |-> declarations]

ExpressionStatement(expression) ==
    [kind |-> "ExpressionStatement",
     expression |-> withParent(expression, ParentRef("ExpressionStatement", undefined))]

\* A statement that is neither a variable statement nor an expression
\* statement (if, return, for, a nested block); nested holds what it contains
OtherStatement(kind, nested) == [kind |-> kind, nested |-> nested]

Block(stmts) == [kind |-> "Block", statements |-> stmts]

getText(node) == node.text

-----------------------------------------------------------------------------
(* Name classification *)

isComponentishNameAnyLetter(name) ==
    LET c == charAt(name, 0) IN c # <<>>

isComponentishName(name) ==
    LET c == charAt(name, 0) IN c # <<>> /\ c[1] \in UpperCase

isHookName(name) ==
    LET c == charAt(name, 3)
    IN startsWith(name, str_use) /\ c # <<>> /\ c[1] \in UpperCase

BuiltinHookNames ==
    LET bare == {str_useState, str_useReducer, str_useEffect, str_useLayoutEffect,
                 str_useMemo, str_useCallback, str_useRef, str_useContext,
                 str_useImperativeMethods, str_useDebugValue}
    IN bare \cup {str_ReactDot \o n : n \in bare}

isBuiltinHook(hookName) == hookName \in BuiltinHookNames

-----------------------------------------------------------------------------
(* Hook-call analysis *)

getHookCallSignatureReducerFirstArg(ctx) ==
    LET expression == ctx.expression
        args == ctx.arguments
    IN  IF expression.kind \notin {"Identifier", "PropertyAccessExpression"} THEN null
        ELSE
        LET name == IF expression.kind = "Identifier" THEN expression.text
                    ELSE expression.name.text
        IN  IF ~isHookName(name) THEN null
            ELSE
            LET key0 == IF ctx.parent.kind = "VariableDeclaration"
                        THEN getText(ctx.parent.name)
                        ELSE <<>>
                key == IF name \in {str_useState, str_useReducer} /\ Len(args) > 0
                       THEN key0 \o <<"(">> \o getText(args[1]) \o <<")">>
                       ELSE key0
            IN  [name |-> name, key |-> key]

getHookCallSignatureIdentifierBinding(ctx) ==
    LET expression == ctx.expression
        args == ctx.arguments
    IN  IF expression.kind \notin {"Identifier", "PropertyAccessExpression"} THEN null
        ELSE
        LET name == IF expression.kind = "Identifier" THEN expression.text
                    ELSE expression.name.text
        IN  IF ~isHookName(name) THEN null
            ELSE
            LET key0 == IF ctx.parent.kind = "VariableDeclaration"
                            /\ ctx.parent.name.kind = "Identifier"
                        THEN getText(ctx.parent.name)
                        ELSE <<>>
                key == IF name = str_useState /\ Len(args) > 0
                       THEN key0 \o <<"(">> \o getText(args[1]) \o <<")">>
                       ELSE IF name = str_useReducer /\ Len(args) > 1
                       THEN key0 \o <<"(">> \o getText(args[2]) \o <<")">>
                       ELSE key0
            IN  [name |-> name, key |-> key]

\* _getHookCallSignature(ctx): null, or the call site's { name, key }
getHookCallSignature(ctx) ==
    LET expression == ctx.expression
        args == ctx.arguments
    IN  IF expression.kind \notin {"Identifier", "PropertyAccessExpression"} THEN null
        ELSE
        LET name == IF expression.kind = "Identifier" THEN expression.text
                    ELSE expression.name.text
        IN  IF ~isHookName(name) THEN null
            ELSE
            LET key0 == IF ctx.parent.kind = "VariableDeclaration"
                        THEN getText(ctx.parent.name)
                        ELSE <<>>
                key == IF name = str_useState /\ Len(args) > 0
                       THEN key0 \o <<"(">> \o getText(args[1]) \o <<")">>
                       ELSE IF name = str_useReducer /\ Len(args) > 1
                       THEN key0 \o <<"(">> \o getText(args[2]) \o <<")">>
                       ELSE key0
            IN  [name |-> name, key |-> key]

statementHookCallsDeep(s) ==
    LET direct(d) ==
            IF d.kind = "VariableStatement" THEN
                LET sigs == [k \in 1..Len(d.declarations) |->
                                LET initializer == d.declarations[k].initializer
                                IN  IF initializer.kind = "CallExpression"
                                    THEN getHookCallSignature(initializer)
                                    ELSE null]
                IN  SelectSeq(sigs, LAMBDA sig : sig # null)
            ELSE IF d.kind = "ExpressionStatement" /\ d.expression.kind = "CallExpression" THEN
                LET sig == getHookCallSignature(d.expression)
                IN  IF sig # null THEN <<sig>> ELSE <<>>
            ELSE <<>>
    IN  IF "nested" \in DOMAIN s THEN flat(map(s.nested, direct)) ELSE direct(s)

\* The call sites one direct statement of a body contributes, in order
statementHookCalls(s) ==
    IF s.kind = "VariableStatement" THEN
        LET sigs == [k \in 1..Len(s.declarations) |->
                        LET initializer == s.declarations[k].initializer
                        IN  IF initializer.kind = "CallExpression"
                            THEN getHookCallSignature(initializer)
                            ELSE null]
        IN  SelectSeq(sigs, LAMBDA sig : sig # null)
    ELSE IF s.kind = "ExpressionStatement" /\ s.expression.kind = "CallExpression" THEN
        LET sig == getHookCallSignature(s.expression)
        IN  IF sig # null THEN <<sig>> ELSE <<>>
    ELSE <<>>

\* const hookCalls of _getHookCallsSignature once its forEach has run
collectHookCalls(fn) ==
    IF fn.body.kind = "Block"
    THEN flat(map(fn.body.statements, statementHookCalls))
    ELSE <<>>

hookCallTextNameOnly(call) == call.name \o <<"{", "}">>

\* call.name + '{' + call.key + '}'
hookCallText(call) == call.name \o <<"{">> \o call.key \o <<"}">>

\* hookCalls.map(call => call.name + '{' + call.key + '}').join('\n')
hookCallsKey(calls) == join(map(calls, hookCallText), <<"\n">>)

\* hookCalls.filter(call => !isBuiltinHook(call.name)).map(call => call.name)
hookCallsCustomHooks(calls) ==
    LET custom == SelectSeq(calls, LAMBDA call : ~isBuiltinHook(call.name))
    IN  [k \in 1..Len(custom) |-> custom[k].name]

\* _getHookCallsSignature(fnNode): null, or { key, customHooks }
getHookCallsSignature(fn) ==
    LET calls == collectHookCalls(fn)
    IN  IF Len(calls) = 0 THEN null
        ELSE [key |-> hookCallsKey(calls), customHooks |-> hookCallsCustomHooks(calls)]

-----------------------------------------------------------------------------
(* Nodes of the top level of a source file, and the factory *)

\* A function declaration, function expression or arrow function
FunctionLike(kind, name, body) == [kind |-> kind, pos |-> 0, name |-> name, body |-> body]

VariableStatement(declarations) ==
    [kind |-> "VariableStatement", pos |-> 0, modifiers |-> undefined,
     declarations |-> declarations, flags |-> "Const"]

ImportSpecifier(name) == [kind |-> "ImportSpecifier", name |-> Identifier(name)]

NamedImports(names) ==
    [kind |-> "NamedImports", elements |-> [k \in 1..Len(names) |-> ImportSpecifier(names[k])]]

NamespaceImport(name) == [kind |-> "NamespaceImport", name |-> Identifier(name)]

ImportClause(name, namedBindings) == [name |-> name, namedBindings |-> namedBindings]

ImportDeclaration(importClause) ==
    [kind |-> "ImportDeclaration", pos |-> 0, importClause |-> importClause]

\* Nodes made by ts.factory are synthesized: they have no position and no parent
SynthesizedPos == -1

createCall(callee, args) == CallExpression(callee, args)

createExpressionStatement(expression) ==
    [kind |-> "ExpressionStatement", pos |-> SynthesizedPos, expression |-> expression]

createStringLiteral(text) == [kind |-> "StringLiteral", text |-> text]

createVariableDeclaration(name, initializer) ==
    [kind |-> "VariableDeclaration", name |-> name, initializer |-> initializer]

createVariableStatement(modifiers, declarations, flags) ==
    [kind |-> "VariableStatement", pos |-> SynthesizedPos, modifiers |-> modifiers,
     declarations |-> declarations, flags |-> flags]

createUniqueNameShared(text, autoGenerateId) ==
    [kind |-> "Identifier", text |-> text, autoGenerateId |-> 1]

\* f.createUniqueName: a generated identifier, told apart by its autoGenerateId
createUniqueName(text, autoGenerateId) ==
    [kind |-> "Identifier", text |-> text, autoGenerateId |-> autoGenerateId]

\* function () { return [customHooks...] }
createGetCustomHooks(customHooks) ==
    [kind |-> "FunctionExpression", pos |-> SynthesizedPos, name |-> undefined,
     body |-> Block(<<[kind |-> "ReturnStatement",
                       expression |-> [kind |-> "ArrayLiteralExpression",
                                       elements |-> map(customHooks, Identifier)]]>>)]

\* ts.getLeadingCommentRanges(sf.text, pos): the comments attached before the
\* statement at pos (their texts), undefined when there are none
getLeadingCommentRanges(file, pos) ==
    IF pos \in DOMAIN file.leadingComments /\ file.leadingComments[pos] # <<>>
    THEN [kind |-> "CommentRanges", texts |-> file.leadingComments[pos]]
    ELSE undefined

\* !!getLeadingCommentRanges(...)?.filter(text includes '@refresh reset').length
hasForceResetComment(file, pos) ==
    LET ranges == getLeadingCommentRanges(file, pos)
    IN  IF ranges = undefined THEN FALSE
        ELSE Len(SelectSeq(ranges.texts,
                           LAMBDA text : includes(text, str_refresh_reset))) # 0

-----------------------------------------------------------------------------
(* transform(): the scan of the top-level statements (first forEach) *)

\* The identity of a function node: the position of its statement and, for an
\* initializer, the index of its declarator (0 for a function declaration)
fnKey(pos, k) == <<pos, k>>

\* The locals of transform() that the scan updates
scanState ==
    [components |-> components, signatures |-> signatures, hookCalls |-> hookCalls,
     seenHooks |-> seenHooks, nextAutoGenerateId |-> nextAutoGenerateId]

recordSignatureEarlyFilter(st, key, hookCallsSignature_) ==
    IF hookCallsSignature_ = null THEN st
    ELSE LET id == createUniqueName(str_s, st.nextAutoGenerateId)
         IN  [st EXCEPT !.nextAutoGenerateId = @ + 1,
                        !.signatures = Append(@, id),
                        !.hookCalls = @ @@ (key :> [id |-> id,
                                                    key |-> hookCallsSignature_.key,
                                                    customHooks |->
                                                        SelectSeq(hookCallsSignature_.customHooks,
                                                                  LAMBDA name : name \in st.seenHooks)])]

\* const id = f.createUniqueName(...); signatures.push(id); hookCalls.set(fn, ...)
recordSignature(st, key, hookCallsSignature_) ==
    IF hookCallsSignature_ = null THEN st
    ELSE LET id == createUniqueName(str_s, st.nextAutoGenerateId)
         IN  [st EXCEPT !.nextAutoGenerateId = @ + 1,
                        !.signatures = Append(@, id),
                        !.hookCalls = @ @@ (key :> [id |-> id,
                                                    key |-> hookCallsSignature_.key,
                                                    customHooks |-> hookCallsSignature_.customHooks])]

\* if (isComponentishName(name.text)) components.push(name)
pushComponent(st, name) ==
    IF isComponentishName(name.text)
    THEN [st EXCEPT !.components = Append(@, name)]
    ELSE st

\* if (isHookName(name.text)) seenHooks.add(name.text)
addSeenHook(st, name) ==
    IF isHookName(name.text)
    THEN [st EXCEPT !.seenHooks = @ \cup {name.text}]
    ELSE st

\* The branch ts.isFunctionDeclaration(node) of the scan
scanFunctionDeclaration(st, node) ==
    LET st1 == IF node.name # undefined THEN pushComponent(st, node.name) ELSE st
        st2 == IF node.name # undefined THEN addSeenHook(st1, node.name) ELSE st1
    IN  recordSignature(st2, fnKey(node.pos, 0), getHookCallsSignature(node))

\* Whether a declarator binds one identifier to a function expression or arrow
isFunctionDeclarator(decl) ==
    /\ decl.initializer # undefined
    /\ decl.name.kind = "Identifier"
    /\ decl.initializer.kind \in {"FunctionExpression", "ArrowFunction"}

\* The body of declarations.forEach for one declarator
scanDeclaration(st, pos, k, decl) ==
    IF isFunctionDeclarator(decl)
    THEN LET sig == getHookCallsSignature(decl.initializer)
             st1 == pushComponent(st, decl.name)
             st2 == addSeenHook(st1, decl.name)
         IN  recordSignature(st2, fnKey(pos, k), sig)
    ELSE st

\* The branch ts.isVariableStatement(node) of the scan, from declarator k on
RECURSIVE scanDeclarations(_, _, _)
scanDeclarations(st, node, k) ==
    IF k > Len(node.declarations) THEN st
    ELSE scanDeclarations(scanDeclaration(st, node.pos, k, node.declarations[k]), node, k + 1)

\* namedBindings.forEachChild(...): the children of the named bindings
namedBindingsChildren(namedBindings) ==
    IF namedBindings.kind = "NamedImports" THEN namedBindings.elements
    ELSE <<namedBindings.name>>

\* The branch ts.isImportDeclaration(node) of the scan
scanImportDeclaration(st, node) ==
    LET name == IF node.importClause = undefined THEN undefined ELSE node.importClause.name
        namedBindings == IF node.importClause = undefined THEN undefined
                         ELSE node.importClause.namedBindings
        st1 == IF name # undefined /\ isHookName(name.text)
               THEN [st EXCEPT !.seenHooks = @ \cup {name.text}]
               ELSE st
        children == IF namedBindings # undefined THEN namedBindingsChildren(namedBindings)
                    ELSE <<>>
        hooks == {children[k].name.text : k \in
                    {j \in 1..Len(children) :
                        /\ children[j].kind = "ImportSpecifier"
                        /\ isHookName(children[j].name.text)}}
    IN  [st1 EXCEPT !.seenHooks = @ \cup hooks]

-----------------------------------------------------------------------------
(* transform(): registrations, signature declaration, and the rewriting map *)

\* $RefreshReg$(name, "name")
refreshRegStatement(name) ==
    createExpressionStatement(
        createCall(Identifier(refreshReg), <<name, createStringLiteral(name.text)>>))

\* components.forEach(name => statements.push(...))
withRegistrations(stmts, comps) == stmts \o map(comps, refreshRegStatement)

\* const _s = $RefreshSig$(), ...
signatureDeclaration(sigs) ==
    createVariableStatement(
        undefined,
        [k \in 1..Len(sigs) |->
            createVariableDeclaration(sigs[k], createCall(Identifier(refreshSig), <<>>))],
        "Const")

\* if (signatures.length > 0) statements.unshift(...)
withSignatureDeclaration(stmts, sigs) ==
    IF Len(sigs) > 0 THEN <<signatureDeclaration(sigs)>> \o stmts ELSE stmts

signArgumentsNoPlaceholder(fnName, key, forceReset, customHooks) ==
    <<Identifier(fnName), createStringLiteral(key)>>
    \o (IF forceReset THEN <<[kind |-> "TrueKeyword"]>> ELSE <<>>)
    \o (IF Len(customHooks) > 0 THEN <<createGetCustomHooks(customHooks)>> ELSE <<>>)

\* The arguments of the signature-recording call of _sign
signArguments(fnName, key, forceReset, customHooks) ==
    <<Identifier(fnName), createStringLiteral(key)>>
    \o (IF forceReset \/ Len(customHooks) > 0
        THEN <<IF forceReset THEN [kind |-> "TrueKeyword"] ELSE [kind |-> "FalseKeyword"]>>
             \o (IF Len(customHooks) > 0 THEN <<createGetCustomHooks(customHooks)>>
                 ELSE <<>>)
        ELSE <<>>)

\* f.createBlock([sigId(), ...fnNode.body.statements], true)
signedBody(body, sigId) ==
    Block(<<createExpressionStatement(createCall(sigId, <<>>))>> \o body.statements)

\* _sign: undefined, or the pair of the rewritten function and the recording call
sign(fn, fnName, sigId, key, forceReset, customHooks) ==
    IF fn.body # undefined /\ fn.body.kind = "Block"
    THEN LET s_ == createExpressionStatement(
                        createCall(sigId, signArguments(fnName, key, forceReset, customHooks)))
         IN  IF fn.kind \in {"FunctionDeclaration", "FunctionExpression", "ArrowFunction"}
             THEN <<[kind |-> fn.kind, pos |-> SynthesizedPos, name |-> fn.name,
                     body |-> signedBody(fn.body, sigId)], s_>>
             ELSE undefined
    ELSE undefined

filterSeenAll(customHooks, seen) == customHooks

\* customHooks.filter(name => seenHooks.has(name))
filterSeen(customHooks, seen) == SelectSeq(customHooks, LAMBDA name : name \in seen)

forceResetUnresolvedOnly(forceResetComment, filtered, customHooks) ==
    Len(filtered) # Len(customHooks)

\* forceResetComment || _customHooks.length !== customHooks.length
forceResetOf(forceResetComment, filtered, customHooks) ==
    forceResetComment \/ Len(filtered) # Len(customHooks)

\* Whether the map callback signs this function declaration
isSignedFunctionDeclaration(node, calls) ==
    node.kind = "FunctionDeclaration" /\ fnKey(node.pos, 0) \in DOMAIN calls

\* Whether node.name!.text of the map callback throws a TypeError
signThrows(node, calls) == isSignedFunctionDeclaration(node, calls) /\ node.name = undefined

\* The map callback for a signed function declaration
rewriteFunctionDeclaration(file, node, calls, seen) ==
    LET call == calls[fnKey(node.pos, 0)]
        customHooks_ == filterSeen(call.customHooks, seen)
        forceResetComment == hasForceResetComment(file, node.pos)
    IN  sign(node, node.name.text, call.id, call.key,
             forceResetOf(forceResetComment, customHooks_, call.customHooks), customHooks_)

\* Whether the map callback signs declarator k of a variable statement
isSignedDeclarator(node, k, calls) ==
    isFunctionDeclarator(node.declarations[k]) /\ fnKey(node.pos, k) \in DOMAIN calls

\* this._sign(initializer, name.text, ...) for declarator k
signDeclarator(file, node, k, calls, seen) ==
    LET decl == node.declarations[k]
        call == calls[fnKey(node.pos, k)]
        customHooks_ == filterSeen(call.customHooks, seen)
        forceResetComment == hasForceResetComment(file, node.pos)
    IN  sign(decl.initializer, decl.name.text, call.id, call.key,
             forceResetOf(forceResetComment, customHooks_, call.customHooks), customHooks_)

recordingCallsReversed(file, node, calls, seen) ==
    LET signed == SelectSeq([k \in 1..Len(node.declarations) |-> Len(node.declarations) + 1 - k],
                            LAMBDA k : isSignedDeclarator(node, k, calls))
    IN  [j \in 1..Len(signed) |-> signDeclarator(file, node, signed[j], calls, seen)[2]]

\* const _ss: the recording calls of the signed declarators, in declarator order
recordingCalls(file, node, calls, seen) ==
    LET signed == SelectSeq([k \in 1..Len(node.declarations) |-> k],
                            LAMBDA k : isSignedDeclarator(node, k, calls))
    IN  [j \in 1..Len(signed) |-> signDeclarator(file, node, signed[j], calls, seen)[2]]

\* The map callback for a variable statement: [vs, ..._ss]
rewriteVariableStatement(file, node, calls, seen) ==
    LET vs == createVariableStatement(
                node.modifiers,
                [k \in 1..Len(node.declarations) |->
                    IF isSignedDeclarator(node, k, calls)
                    THEN createVariableDeclaration(
                            node.declarations[k].name,
                            signDeclarator(file, node, k, calls, seen)[1])
                    ELSE node.declarations[k]],
                node.flags)
    IN  <<vs>> \o recordingCalls(file, node, calls, seen)

\* The map callback: the statements that replace node in the output
rewriteStatement(file, node, calls, seen) ==
    IF isSignedFunctionDeclaration(node, calls)
    THEN rewriteFunctionDeclaration(file, node, calls, seen)
    ELSE IF node.kind = "VariableStatement"
    THEN rewriteVariableStatement(file, node, calls, seen)
    ELSE <<node>>

-----------------------------------------------------------------------------
(* Input space: function bodies *)

\* const [n,setN]=useState(0);
stmtUseState0 ==
    BodyVariableStatement(<<VariableDeclaration(BindingPattern(str_nsetN),
        CallExpression(Identifier(str_useState), <<Expression(str_0)>>))>>)

\* const [n,setN]=useState(1);
stmtUseState1 ==
    BodyVariableStatement(<<VariableDeclaration(BindingPattern(str_nsetN),
        CallExpression(Identifier(str_useState), <<Expression(str_1)>>))>>)

\* useMyHook();
stmtUseMyHook == ExpressionStatement(CallExpression(Identifier(str_useMyHook), <<>>))

\* hooks.useOther();
stmtUseOther ==
    ExpressionStatement(CallExpression(PropertyAccessExpression(str_hooks, str_useOther), <<>>))

\* useEffect(f);
stmtUseEffectF ==
    ExpressionStatement(CallExpression(Identifier(str_useEffect), <<Expression(str_f)>>))

\* useEffect(g);
stmtUseEffectG ==
    ExpressionStatement(CallExpression(Identifier(str_useEffect), <<Expression(str_g)>>))

\* const a = useOther(), b = React.useReducer(r, init);
stmtTwoDeclarators ==
    BodyVariableStatement(<<
        VariableDeclaration(Identifier(str_a), CallExpression(Identifier(str_useOther), <<>>)),
        VariableDeclaration(Identifier(str_b),
            CallExpression(PropertyAccessExpression(str_React, str_useReducer),
                           <<Expression(str_r), Expression(str_init)>>))>>)

\* const v = useReducer(r);
stmtUseReducerOneArg ==
    BodyVariableStatement(<<VariableDeclaration(Identifier(str_v),
        CallExpression(Identifier(str_useReducer), <<Expression(str_r)>>))>>)

\* const r = useRef(0);
stmtUseRef ==
    BodyVariableStatement(<<VariableDeclaration(Identifier(str_r),
        CallExpression(Identifier(str_useRef), <<Expression(str_0)>>))>>)

\* if (c) { useState(1); }
stmtNestedHook ==
    OtherStatement("IfStatement",
        <<ExpressionStatement(CallExpression(Identifier(str_useState), <<Expression(str_1)>>))>>)

\* user();   (a call whose callee is not a hook name)
stmtUser == ExpressionStatement(CallExpression(Identifier(str_user), <<>>))

\* useMyHook()();   (the callee is itself a call)
stmtCallOfCall ==
    ExpressionStatement(CallExpression(CallExpression(Identifier(str_useMyHook), <<>>), <<>>))

\* let v, a = 0;   (no call initializer)
stmtNoCall ==
    BodyVariableStatement(<<VariableDeclaration(Identifier(str_v), undefined),
                            VariableDeclaration(Identifier(str_a), Expression(str_0))>>)

\* return null;
stmtReturn == OtherStatement("ReturnStatement", <<>>)

\* The direct statements the stand-alone analysis draws bodies from
AnalyzerStatements ==
    {stmtUseState0, stmtUseState1, stmtUseMyHook, stmtUseOther, stmtUseEffectF,
     stmtUseEffectG, stmtTwoDeclarators, stmtUseReducerOneArg, stmtNestedHook,
     stmtUser, stmtCallOfCall, stmtNoCall}

SeqsUpTo(S, n) == UNION {[1..k -> S] : k \in 0..n}

\* The functions handed to the stand-alone analysis: block bodies of up to
\* MaxBody statements, a concise arrow body, and a declaration without a body
AnalyzerFunctions ==
    {FunctionLike(kind, undefined, Block(b)) :
        kind \in {"FunctionDeclaration", "FunctionExpression", "ArrowFunction"},
        b \in SeqsUpTo(AnalyzerStatements, MaxBody)}
    \cup {FunctionLike("ArrowFunction", undefined,
                       CallExpression(Identifier(str_useMyHook), <<>>)),
          FunctionLike("FunctionDeclaration", undefined, undefined)}

-----------------------------------------------------------------------------
(* Input space: source files *)

\* const [n,setN]=useState(0); useMyHook(); return null
bodyCounter == <<stmtUseState0, stmtUseMyHook, stmtReturn>>

\* if (c) { useState(1); } return null
bodyNested == <<stmtNestedHook, stmtReturn>>

\* useMyHook(); hooks.useOther();
bodyApp == <<stmtUseMyHook, stmtUseOther>>

\* const r = useRef(0); return null
bodyUseOther == <<stmtUseRef, stmtReturn>>

\* function Counter() {...}, function useMyHook() {...}, export default function () {...},
\* each with a hook-calling body or a body without direct hook calls, and the
\* overload signature function Counter();
FunctionDeclarations ==
    {FunctionLike("FunctionDeclaration", name, body) :
        name \in {Identifier(str_Counter), Identifier(str_useMyHook), undefined},
        body \in {Block(bodyCounter), Block(bodyNested)}}
    \cup {FunctionLike("FunctionDeclaration", Identifier(str_Counter), undefined)}

\* App = () => { useMyHook(); hooks.useOther(); }
declApp ==
    VariableDeclaration(Identifier(str_App),
                        FunctionLike("ArrowFunction", undefined, Block(bodyApp)))

\* useOther = function () { const r = useRef(0); return null }
declUseOther ==
    VariableDeclaration(Identifier(str_useOther),
                        FunctionLike("FunctionExpression", undefined, Block(bodyUseOther)))

\* Tip = () => useMyHook()
declTip ==
    VariableDeclaration(Identifier(str_Tip),
        FunctionLike("ArrowFunction", undefined,
                     CallExpression(Identifier(str_useMyHook), <<>>)))

\* [a,b] = () => { useMyHook(); hooks.useOther(); }
declPattern ==
    VariableDeclaration(BindingPattern(str_ab),
                        FunctionLike("ArrowFunction", undefined, Block(bodyApp)))

\* useMyHook = helper()
declValue ==
    VariableDeclaration(Identifier(str_useMyHook),
                        CallExpression(Identifier(str_helper), <<>>))

VariableStatements ==
    {VariableStatement(<<d>>) : d \in {declApp, declUseOther, declTip, declPattern, declValue}}
    \cup {VariableStatement(<<declApp, declUseOther>>),
          VariableStatement(<<declTip, declApp>>),
          VariableStatement(<<declUseOther, declTip>>)}

ImportDeclarations ==
    {ImportDeclaration(ImportClause(Identifier(str_useMyHook), undefined)),
     ImportDeclaration(ImportClause(Identifier(str_React),
                                    NamedImports(<<str_useState, str_useOther>>))),
     ImportDeclaration(ImportClause(undefined, NamespaceImport(str_useOther))),
     ImportDeclaration(undefined)}

\* helper();
OtherStatements ==
    {[kind |-> "ExpressionStatement", pos |-> 0,
      expression |-> CallExpression(Identifier(str_helper), <<>>)]}

TopLevelStatements ==
    FunctionDeclarations \cup VariableStatements \cup ImportDeclarations \cup OtherStatements

\* The comments attached before a top-level statement
LeadingComments == {<<>>, <<cmt_plain, cmt_block_reset>>, <<cmt_refresh_only>>}

\* The statements drawn with every choice of leading comments; the others
\* are drawn without comments
CommentedStatements ==
    {FunctionLike("FunctionDeclaration", Identifier(str_Counter), Block(bodyCounter)),
     VariableStatement(<<declApp>>),
     VariableStatement(<<declApp, declUseOther>>)}

StatementsWithComments ==
    {sc \in TopLevelStatements \X LeadingComments :
        sc[2] = <<>> \/ sc[1] \in CommentedStatements}

\* A parsed source file: statement k sits at position k
SourceFile(stmts) ==
    [statements |-> [k \in 1..Len(stmts) |-> [stmts[k][1] EXCEPT !.pos = k]],
     leadingComments |-> [k \in 1..Len(stmts) |-> stmts[k][2]]]

SourceFiles == {SourceFile(stmts) : stmts \in SeqsUpTo(StatementsWithComments, MaxStmts)}

-----
(* transform() as a state machine *)

pending == [kind |-> "pending"]

Init ==
    /\ sf \in SourceFiles
    /\ pc = "scan"
    /\ idx = 1
    /\ statements = <<>>
    /\ components = <<>>
    /\ signatures = <<>>
    /\ hookCalls = <<>>
    /\ seenHooks = {}
    /\ nextAutoGenerateId = 1
    /\ out = <<>>
    /\ fnNode = undefined
    /\ hookCallsSignature = pending

\* One iteration of this.#sf.statements.forEach(node => ...)
ScanStep(st, node) ==
    /\ components' = st.components
    /\ signatures' = st.signatures
    /\ hookCalls' = st.hookCalls
    /\ seenHooks' = st.seenHooks
    /\ nextAutoGenerateId' = st.nextAutoGenerateId
    /\ statements' = Append(statements, node)
    /\ idx' = idx + 1
    /\ UNCHANGED <<sf, pc, out>>
    /\ UNCHANGED analyzerVars

ScanFunctionDeclaration ==
    /\ pc = "scan" /\ idx <= Len(sf.statements)
    /\ sf.statements[idx].kind = "FunctionDeclaration"
    /\ ScanStep(scanFunctionDeclaration(scanState, sf.statements[idx]), sf.statements[idx])

ScanVariableStatement ==
    /\ pc = "scan" /\ idx <= Len(sf.statements)
    /\ sf.statements[idx].kind = "VariableStatement"
    /\ ScanStep(scanDeclarations(scanState, sf.statements[idx], 1), sf.statements[idx])

ScanImportDeclaration ==
    /\ pc = "scan" /\ idx <= Len(sf.statements)
    /\ sf.statements[idx].kind = "ImportDeclaration"
    /\ ScanStep(scanImportDeclaration(scanState, sf.statements[idx]), sf.statements[idx])

ScanOther ==
    /\ pc = "scan" /\ idx <= Len(sf.statements)
    /\ sf.statements[idx].kind \notin
            {"FunctionDeclaration", "VariableStatement", "ImportDeclaration"}
    /\ ScanStep(scanState, sf.statements[idx])

\* components.forEach(...) and the unshift of the signature declaration
Register ==
    /\ pc = "scan" /\ idx > Len(sf.statements)
    /\ statements' = withSignatureDeclaration(withRegistrations(statements, components),
                                              signatures)
    /\ pc' = "map"
    /\ idx' = 1
    /\ UNCHANGED <<sf, components, signatures, hookCalls, seenHooks, nextAutoGenerateId, out>>
    /\ UNCHANGED analyzerVars

\* One call of the callback of statements.map(node => ...)
MapStatement ==
    /\ pc = "map" /\ idx <= Len(statements)
    /\ ~signThrows(statements[idx], hookCalls)
    /\ out' = out \o rewriteStatement(sf, statements[idx], hookCalls, seenHooks)
    /\ idx' = idx + 1
    /\ UNCHANGED <<sf, pc, statements, components, signatures, hookCalls, seenHooks,
                   nextAutoGenerateId>>
    /\ UNCHANGED analyzerVars

\* node.name!.text of a signed function declaration without a name: TypeError
MapThrows ==
    /\ pc = "map" /\ idx <= Len(statements)
    /\ signThrows(statements[idx], hookCalls)
    /\ pc' = "threw"
    /\ UNCHANGED <<sf, idx, statements, components, signatures, hookCalls, seenHooks,
                   nextAutoGenerateId, out>>
    /\ UNCHANGED analyzerVars

\* return ts.updateSourceFileNode(...)
Return ==
    /\ pc = "map" /\ idx > Len(statements)
    /\ pc' = "done"
    /\ UNCHANGED <<sf, idx, statements, components, signatures, hookCalls, seenHooks,
                   nextAutoGenerateId, out>>
    /\ UNCHANGED analyzerVars

Next ==
    \/ ScanFunctionDeclaration
    \/ ScanVariableStatement
    \/ ScanImportDeclaration
    \/ ScanOther
    \/ Register
    \/ MapStatement
    \/ MapThrows
    \/ Return

Spec == Init /\ [][Next]_vars

-----------------------------------------------------------------------------
(* _getHookCallsSignature on its own: one call on one function *)

AnalyzerInit ==
    /\ fnNode \in AnalyzerFunctions
    /\ hookCallsSignature = pending
    /\ sf = SourceFile(<<>>)
    /\ pc = "scan"
    /\ idx = 1
    /\ statements = <<>>
    /\ components = <<>>
    /\ signatures = <<>>
    /\ hookCalls = <<>>
    /\ seenHooks = {}
    /\ nextAutoGenerateId = 1
    /\ out = <<>>

\* const hookCallsSignature = this._getHookCallsSignature(fnNode)
Analyze ==
    /\ hookCallsSignature = pending
    /\ hookCallsSignature' = getHookCallsSignature(fnNode)
    /\ UNCHANGED fnNode
    /\ UNCHANGED transformVars

AnalyzerNext == Analyze

AnalyzerSpec == AnalyzerInit /\ [][AnalyzerNext]_vars

-----------------------------------------------------------------------------
(* Properties of the hook-call analysis *)

\* Whether an expression is a call whose callee is an identifier, or ends in a
\* property name, matching the hook-naming rule
IsHookCall(e) ==
    /\ e.kind = "CallExpression"
    /\ \/ e.expression.kind = "Identifier" /\ isHookName(e.expression.text)
       \/ e.expression.kind = "PropertyAccessExpression" /\ isHookName(e.expression.name.text)

HookNameOf(e) ==
    IF e.expression.kind = "Identifier" THEN e.expression.text ELSE e.expression.name.text

\* The hook call sites of one direct statement: the call and the text of the
\* binding it initializes (empty for a bare expression statement)
CallSitesOfStatement(s) ==
    IF s.kind = "VariableStatement"
    THEN LET hookDecls == SelectSeq(s.declarations, LAMBDA d : IsHookCall(d.initializer))
         IN  [k \in 1..Len(hookDecls) |->
                [call |-> hookDecls[k].initializer, bindingKey |-> hookDecls[k].name.text]]
    ELSE IF s.kind = "ExpressionStatement" /\ IsHookCall(s.expression)
    THEN <<[call |-> s.expression, bindingKey |-> <<>>]>>
    ELSE <<>>

\* The hook call sites among the direct statements of a function, in source order
RECURSIVE CallSitesOfBody(_)
CallSitesOfBody(stmts) ==
    IF stmts = <<>> THEN <<>>
    ELSE CallSitesOfStatement(Head(stmts)) \o CallSitesOfBody(Tail(stmts))

CallSitesOf(fn) == IF fn.body.kind = "Block" THEN CallSitesOfBody(fn.body.statements) ELSE <<>>

\* "(" + seed argument + ")" for useState (first argument) and useReducer
\* (second argument) when the call has that argument, empty otherwise
ArgKeyFragment(call) ==
    LET name == HookNameOf(call)
        n == IF name = str_useState THEN 1 ELSE IF name = str_useReducer THEN 2 ELSE 0
    IN  IF n >= 1 /\ Len(call.arguments) >= n
        THEN <<"(">> \o call.arguments[n].text \o <<")">>
        ELSE <<>>

\* "<hookName>{<bindingKey+argKeyFragment>}"
SiteText(site) ==
    HookNameOf(site.call) \o <<"{">> \o site.bindingKey \o ArgKeyFragment(site.call) \o <<"}">>

RECURSIVE JoinLines(_)
JoinLines(lines) ==
    IF Len(lines) = 0 THEN <<>>
    ELSE IF Len(lines) = 1 THEN lines[1]
    ELSE JoinLines(SubSeq(lines, 1, Len(lines) - 1)) \o <<"\n">> \o lines[Len(lines)]

ExampleKey == <<"u", "s", "e", "S", "t", "a", "t", "e", "{", "[", "n", ",", "s", "e", "t", "N", "]", "(", "0", ")", "}", "\n", "u", "s", "e", "M", "y", "H", "o", "o", "k", "{", "}">>

Analysed == hookCallsSignature # pending

SwapCalls(calls, i, j) ==
    [k \in 1..Len(calls) |-> IF k = i THEN calls[j] ELSE IF k = j THEN calls[i] ELSE calls[k]]

\* C4 as stated: exchanging the call sites at any two distinct positions of an
\* analysed body changes the key
C4_AnySwapChangesKey ==
    (Analysed /\ hookCallsSignature # null) =>
        LET calls == collectHookCalls(fnNode)
        IN  \A i, j \in 1..Len(calls) :
                i # j => hookCallsKey(SwapCalls(calls, i, j)) # hookCallsSignature.key

\* C4 amended: exchanging two call sites that differ in hook name, binding
\* text or seed-argument fragment changes the key
C4_SwapOfDistinctCallsChangesKey ==
    (Analysed /\ hookCallsSignature # null) =>
        LET sites == CallSitesOf(fnNode)
            calls == collectHookCalls(fnNode)
        IN  /\ Len(calls) = Len(sites)
            /\ \A i, j \in 1..Len(sites) :
                (i # j /\ (\/ HookNameOf(sites[i].call) # HookNameOf(sites[j].call)
                           \/ sites[i].bindingKey # sites[j].bindingKey
                           \/ ArgKeyFragment(sites[i].call) # ArgKeyFragment(sites[j].call)))
                    => hookCallsKey(SwapCalls(calls, i, j)) # hookCallsSignature.key

\* C4 witness: an analysed body whose first and third call sites differ only
\* in the seed argument of useState
C4_Witness ==
    /\ Analysed
    /\ hookCallsSignature # null
    /\ fnNode.body.kind = "Block"
    /\ fnNode.body.statements = <<stmtUseState0, stmtUseEffectF, stmtUseState1>>

-----------------------------------------------------------------------------
(* Reading the input and the output of transform() *)

Done == pc = "done"

\* The functions defined by one top-level statement, in declarator order:
\* the statement's position, the declarator's index (0 for a function
\* declaration), the name node and the function node
FunctionsOfStatement(node) ==
    IF node.kind = "FunctionDeclaration"
    THEN <<[stmt |-> node.pos, decl |-> 0, name |-> node.name, fn |-> node]>>
    ELSE IF node.kind = "VariableStatement"
    THEN LET ks == SelectSeq([k \in 1..Len(node.declarations) |-> k],
                             LAMBDA k : node.declarations[k].initializer.kind
                                            \in {"FunctionExpression", "ArrowFunction"})
         IN  [j \in 1..Len(ks) |->
                [stmt |-> node.pos, decl |-> ks[j], name |-> node.declarations[ks[j]].name,
                 fn |-> node.declarations[ks[j]].initializer]]
    ELSE <<>>

\* The top-level functions of the input, in source order
TopFunctions == flat(map(sf.statements, FunctionsOfStatement))

\* A top-level function is named when a single identifier names it
IsNamed(f) == f.name.kind = "Identifier"

StartsUpperCase(text) == Len(text) >= 1 /\ text[1] \in UpperCase

\* The top-level functions whose name starts with an uppercase ASCII letter
ComponentFunctions == SelectSeq(TopFunctions, LAMBDA f : IsNamed(f) /\ StartsUpperCase(f.name.text))

\* The named top-level functions with a hook call site among their direct statements
IsSigned(f) == IsNamed(f) /\ Len(CallSitesOf(f.fn)) >= 1

SignedFunctions == SelectSeq(TopFunctions, IsSigned)

SignedFunctionsOfStatement(node) == SelectSeq(FunctionsOfStatement(node), IsSigned)

IsGenerated(id) == "autoGenerateId" \in DOMAIN id

IsSynthesizedCall(o) ==
    /\ o.kind = "ExpressionStatement"
    /\ o.pos = SynthesizedPos
    /\ o.expression.kind = "CallExpression"

\* $RefreshReg$(...)
IsRegistration(o) ==
    /\ IsSynthesizedCall(o)
    /\ ~IsGenerated(o.expression.expression)
    /\ o.expression.expression.text = refreshReg

\* _s(...): a call of a signature id
IsRecordingCall(o) == IsSynthesizedCall(o) /\ IsGenerated(o.expression.expression)

\* const _s = $RefreshSig$(), ...
IsSignatureDeclaration(o) ==
    /\ o.kind = "VariableStatement"
    /\ o.pos = SynthesizedPos
    /\ Len(o.declarations) >= 1
    /\ \A k \in 1..Len(o.declarations) : IsGenerated(o.declarations[k].name)

IsInserted(o) == IsRegistration(o) \/ IsRecordingCall(o) \/ IsSignatureDeclaration(o)

Registrations == SelectSeq(out, IsRegistration)
Recordings == SelectSeq(out, IsRecordingCall)
CoreStatements == SelectSeq(out, LAMBDA o : ~IsInserted(o))

ShapeOf(o) ==
    IF IsSignatureDeclaration(o) THEN [tag |-> "declaration", name |-> <<>>]
    ELSE IF IsRegistration(o) THEN [tag |-> "registration", name |-> <<>>]
    ELSE IF IsRecordingCall(o)
    THEN [tag |-> "recording", name |-> o.expression.arguments[1].text]
    ELSE [tag |-> "statement", name |-> <<>>]

\* A top-level input statement followed by one recording call per function
\* it signs, in declarator order
ExpectedShapeOfStatement(node) ==
    <<[tag |-> "statement", name |-> <<>>]>>
    \o map(SignedFunctionsOfStatement(node),
           LAMBDA f : [tag |-> "recording", name |-> f.name.text])

ExpectedShape ==
    (IF Len(SignedFunctions) > 0 THEN <<[tag |-> "declaration", name |-> <<>>]>> ELSE <<>>)
    \o flat(map(sf.statements, ExpectedShapeOfStatement))
    \o map(ComponentFunctions, LAMBDA f : [tag |-> "registration", name |-> <<>>])

\* Whether an output function is the input function with a call prepended to its body
IsSignedVersionOf(o, fn) ==
    /\ o.kind = fn.kind
    /\ o.name = fn.name
    /\ o.body.kind = "Block"
    /\ Len(o.body.statements) = Len(fn.body.statements) + 1
    /\ Tail(o.body.statements) = fn.body.statements

\* Whether output statement o stands for input statement node: the same
\* statement, with only the functions it signs rewritten
StandsFor(o, node) ==
    IF node.kind = "FunctionDeclaration"
    THEN IF SignedFunctionsOfStatement(node) # <<>> THEN IsSignedVersionOf(o, node) ELSE o = node
    ELSE IF node.kind = "VariableStatement"
    THEN /\ o.kind = "VariableStatement"
         /\ o.modifiers = node.modifiers
         /\ o.flags = node.flags
         /\ Len(o.declarations) = Len(node.declarations)
         /\ \A k \in 1..Len(node.declarations) :
                IF \E j \in 1..Len(SignedFunctionsOfStatement(node)) :
                        SignedFunctionsOfStatement(node)[j].decl = k
                THEN /\ o.declarations[k].name = node.declarations[k].name
                     /\ IsSignedVersionOf(o.declarations[k].initializer,
                                          node.declarations[k].initializer)
                ELSE o.declarations[k] = node.declarations[k]
    ELSE o = node

\* C2: when transform() returns, the input statements appear in their
\* original order (each unchanged apart from the functions it signs), the only
\* statements between them are recording calls, each signed function's
\* recording call directly follows its defining statement, and a variable
\* statement is followed by one recording call per signed declarator in
\* declarator order, its unsigned declarators unchanged
C2_OrderAndInsertions ==
    Done =>
        /\ [k \in 1..Len(out) |-> ShapeOf(out[k])] = ExpectedShape
        /\ Len(CoreStatements) = Len(sf.statements)
        /\ \A k \in 1..Len(sf.statements) : StandsFor(CoreStatements[k], sf.statements[k])

\* C2 witness: a returned output for a two-declarator statement with both
\* declarators signed, followed by a function declaration that is not signed
C2_Witness ==
    /\ Done
    /\ Len(sf.statements) = 2
    /\ sf.statements[1].kind = "VariableStatement"
    /\ Len(SignedFunctionsOfStatement(sf.statements[1])) = 2
    /\ sf.statements[2].kind = "FunctionDeclaration"
    /\ SignedFunctionsOfStatement(sf.statements[2]) = <<>>
    /\ [k \in 1..4 |-> ShapeOf(out[k]).tag]
            = <<"declaration", "statement", "recording", "recording">>

-----------------------------------------------------------------------------
(* Properties of the emitted signatures *)

\* The hook names a function calls that are not built in, in call order
CustomHookNames(f) ==
    LET sites == CallSitesOf(f.fn)
        names == [k \in 1..Len(sites) |-> HookNameOf(sites[k].call)]
    IN  SelectSeq(names, LAMBDA n : n \notin BuiltinHookNames)

Restrict(names, S) == SelectSeq(names, LAMBDA n : n \in S)

\* Whether a leading comment of the function's defining statement contains the marker
HasResetComment(f) ==
    \E k \in 1..Len(sf.leadingComments[f.stmt]) :
        includes(sf.leadingComments[f.stmt][k], str_refresh_reset)

\* The arguments of the recording call emitted for the t-th signed function
RecordingArgs(t) == Recordings[t].expression.arguments

\* The identifiers its getCustomHooks argument returns (none when it is absent)
EmittedCustomHooks(t) ==
    IF Len(RecordingArgs(t)) >= 4
    THEN LET elements == RecordingArgs(t)[4].body.statements[1].expression.elements
         IN  [k \in 1..Len(elements) |-> elements[k].text]
    ELSE <<>>

\* Whether its third argument is true
EmittedForceReset(t) ==
    Len(RecordingArgs(t)) >= 3 /\ RecordingArgs(t)[3].kind = "TrueKeyword"

\* The output has one recording call per signed function, in scan order
RecordingsMatch ==
    /\ Len(Recordings) = Len(SignedFunctions)
    /\ \A t \in 1..Len(SignedFunctions) :
        RecordingArgs(t)[1] = Identifier(SignedFunctions[t].name.text)

\* C5: the getCustomHooks list emitted for a signed function is its
\* non-built-in hook names, in call order, restricted to the hook-name set,
\* and forceReset is true whenever the restriction removed a name
C5_UnknownCustomHooks ==
    Done =>
        /\ RecordingsMatch
        /\ \A t \in 1..Len(SignedFunctions) :
            LET custom == CustomHookNames(SignedFunctions[t])
            IN  /\ EmittedCustomHooks(t) = Restrict(custom, seenHooks)
                /\ Len(Restrict(custom, seenHooks)) < Len(custom) => EmittedForceReset(t)

\* C5 witness: App calls useMyHook (imported) and useOther (declared nowhere);
\* the returned output lists useMyHook only and passes true
C5_Witness ==
    /\ Done
    /\ Len(SignedFunctions) = 1
    /\ CustomHookNames(SignedFunctions[1]) = <<str_useMyHook, str_useOther>>
    /\ seenHooks = {str_useMyHook}
    /\ ~HasResetComment(SignedFunctions[1])
    /\ EmittedCustomHooks(1) = <<str_useMyHook>>
    /\ EmittedForceReset(1)

\* C6: the recording call of a signed function whose defining statement has a
\* leading comment containing `@refresh reset` passes true as third argument
C6_ResetComment ==
    Done =>
        /\ RecordingsMatch
        /\ \A t \in 1..Len(SignedFunctions) :
            HasResetComment(SignedFunctions[t]) => EmittedForceReset(t)

\* C6 witness: a reset comment on a function all of whose custom hooks are
\* resolved; the returned output passes true and the custom hooks
C6_Witness ==
    /\ Done
    /\ Len(SignedFunctions) >= 1
    /\ HasResetComment(SignedFunctions[1])
    /\ CustomHookNames(SignedFunctions[1]) # <<>>
    /\ EmittedCustomHooks(1) = CustomHookNames(SignedFunctions[1])
    /\ EmittedForceReset(1)

\* C7 as stated: the forceReset argument is present only when forceReset is
\* true, and the getCustomHooks argument only when the filtered list is non-empty
C7_NoPlaceholderArguments ==
    Done =>
        \A t \in 1..Len(Recordings) :
            LET args == RecordingArgs(t)
            IN  /\ \A k \in 1..Len(args) : args[k].kind # "FalseKeyword"
                /\ \A k \in 1..Len(args) :
                    args[k].kind = "FunctionExpression" => EmittedCustomHooks(t) # <<>>

\* C7 amended: the third argument is present exactly when forceReset is true
\* or the filtered customHooks list is non-empty, and is the literal of
\* forceReset (false only to hold the place before getCustomHooks); the
\* fourth argument is present exactly when the filtered list is non-empty
C7_TrailingArguments ==
    Done =>
        /\ RecordingsMatch
        /\ \A t \in 1..Len(SignedFunctions) :
            LET f == SignedFunctions[t]
                args == RecordingArgs(t)
                filtered == Restrict(CustomHookNames(f), seenHooks)
                forceReset == HasResetComment(f) \/ Len(filtered) < Len(CustomHookNames(f))
            IN  /\ Len(args) \in 2..4
                /\ Len(args) >= 3 <=> (forceReset \/ filtered # <<>>)
                /\ Len(args) = 4 <=> filtered # <<>>
                /\ Len(args) >= 3 =>
                    args[3].kind = (IF forceReset THEN "TrueKeyword" ELSE "FalseKeyword")
                /\ Len(args) = 4 =>
                    /\ args[4].kind = "FunctionExpression"
                    /\ EmittedCustomHooks(t) = filtered

\* C7 witness: no reset and every custom hook resolved, so the returned
\* recording call is (Counter, key, false, getCustomHooks)
C7_Witness ==
    /\ Done
    /\ Len(Recordings) = 1
    /\ Len(RecordingArgs(1)) = 4
    /\ RecordingArgs(1)[1].text = str_Counter
    /\ RecordingArgs(1)[3].kind = "FalseKeyword"
    /\ EmittedCustomHooks(1) = <<str_useMyHook>>

\* The function node the output holds for top-level input function f
OutputFunction(f) ==
    IF f.decl = 0 THEN CoreStatements[f.stmt]
    ELSE CoreStatements[f.stmt].declarations[f.decl].initializer

\* The declarator the output holds for top-level input function f
OutputDeclaration(f) == CoreStatements[f.stmt].declarations[f.decl]

SignatureDeclarations == SelectSeq(out, IsSignatureDeclaration)

\* C8: when transform() returns and some function is signed, the first
\* output statement is the only signature declaration and binds one id per
\* signed function to $RefreshSig$(), in scan order, the ids pairwise
\* distinct; nothing is declared when nothing is signed; the body of each
\* signed function starts with a zero-argument call of its own id followed by
\* its original statements, and its recording call calls the same id
C8_SignatureIds ==
    Done =>
        /\ RecordingsMatch
        /\ Len(CoreStatements) = Len(sf.statements)
        /\ Len(SignedFunctions) = 0 => SignatureDeclarations = <<>>
        /\ Len(SignedFunctions) > 0 =>
            /\ SignatureDeclarations = <<out[1]>>
            /\ Len(out[1].declarations) = Len(SignedFunctions)
            /\ \A t \in 1..Len(SignedFunctions) :
                LET id == out[1].declarations[t].name
                    body == OutputFunction(SignedFunctions[t]).body
                IN  /\ out[1].declarations[t].initializer.kind = "CallExpression"
                    /\ out[1].declarations[t].initializer.expression = Identifier(refreshSig)
                    /\ out[1].declarations[t].initializer.arguments = <<>>
                    /\ \A u \in 1..Len(SignedFunctions) :
                        u # t => out[1].declarations[u].name # id
                    /\ body.kind = "Block"
                    /\ body.statements[1].kind = "ExpressionStatement"
                    /\ body.statements[1].expression.kind = "CallExpression"
                    /\ body.statements[1].expression.expression = id
                    /\ body.statements[1].expression.arguments = <<>>
                    /\ Tail(body.statements) = SignedFunctions[t].fn.body.statements
                    /\ Recordings[t].expression.expression = id

\* C8 witness: a returned output with three signed functions
C8_Witness ==
    /\ Done
    /\ Len(SignedFunctions) = 3
    /\ IsSignatureDeclaration(out[1])
    /\ Len(out[1].declarations) = 3

\* The top-level functions with no hook call site among their direct statements
UnsignedFunctions == SelectSeq(TopFunctions, LAMBDA f : Len(CallSitesOf(f.fn)) = 0)

\* C9: a top-level function with no hook call site among the direct
\* statements of its body (a concise arrow body included) never gets a
\* signature id, and in the returned output it is unchanged and the recording
\* calls are those of the other functions only
C9_NoHooksNoSignature ==
    /\ \A k \in 1..Len(UnsignedFunctions) :
        fnKey(UnsignedFunctions[k].stmt, UnsignedFunctions[k].decl) \notin DOMAIN hookCalls
    /\ Len(signatures) <= Len(TopFunctions) - Len(UnsignedFunctions)
    /\ Done =>
        /\ Len(CoreStatements) = Len(sf.statements)
        /\ Len(Recordings) = Len(signatures)
        /\ [k \in 1..Len(out) |-> ShapeOf(out[k])] = ExpectedShape
        /\ \A k \in 1..Len(UnsignedFunctions) :
            LET f == UnsignedFunctions[k]
            IN  IF f.decl = 0 THEN OutputFunction(f) = f.fn
                ELSE OutputDeclaration(f) = sf.statements[f.stmt].declarations[f.decl]

\* C9 witness: a returned output for a concise arrow returning a hook call
\* beside a signed arrow, and a function whose only hook call is nested
C9_Witness ==
    /\ Done
    /\ Len(sf.statements) = 2
    /\ Len(UnsignedFunctions) = 2
    /\ UnsignedFunctions[1].fn.body.kind = "CallExpression"
    /\ UnsignedFunctions[2].fn.body.kind = "Block"
    /\ UnsignedFunctions[2].fn.body.statements = bodyNested
    /\ Len(Recordings) = 1

\* The statements that declare or import hook name h: a function declaration
\* or function-valued declarator named h, a default import h, a named import h
DeclaresHook(node, h) ==
    \/ \E k \in 1..Len(FunctionsOfStatement(node)) :
        /\ IsNamed(FunctionsOfStatement(node)[k])
        /\ FunctionsOfStatement(node)[k].name.text = h
    \/ /\ node.kind = "ImportDeclaration"
       /\ node.importClause # undefined
       /\ \/ node.importClause.name = Identifier(h)
          \/ /\ node.importClause.namedBindings # undefined
             /\ node.importClause.namedBindings.kind = "NamedImports"
             /\ \E k \in 1..Len(node.importClause.namedBindings.elements) :
                  node.importClause.namedBindings.elements[k].name.text = h

DeclaringStatements(h) == {k \in 1..Len(sf.statements) : DeclaresHook(sf.statements[k], h)}

\* The custom hooks of f that only statements after f's own declare or import
ForwardHooks(f) ==
    {h \in {CustomHookNames(f)[k] : k \in 1..Len(CustomHookNames(f))} :
        /\ DeclaringStatements(h) # {}
        /\ \A k \in DeclaringStatements(h) : k > f.stmt}

InSeq(x, seq) == \E k \in 1..Len(seq) : seq[k] = x

\* C10 as stated: a custom hook declared or imported only by a later
\* statement is dropped from the function's customHooks and forceReset is true
C10_ForwardHookDropped ==
    Done =>
        \A t \in 1..Len(SignedFunctions) :
            \A h \in ForwardHooks(SignedFunctions[t]) :
                /\ ~InSeq(h, EmittedCustomHooks(t))
                /\ EmittedForceReset(t)

\* C10 amended: the hook-name set is complete before it is consulted, so a
\* custom hook declared or imported by any top-level statement, a later one
\* included, is kept in the function's customHooks, and forceReset is true
\* only for a reset comment or a custom hook that no statement declares
C10_ForwardHookResolved ==
    Done =>
        /\ RecordingsMatch
        /\ \A t \in 1..Len(SignedFunctions) :
            LET f == SignedFunctions[t]
                custom == CustomHookNames(f)
            IN  /\ \A h \in ForwardHooks(f) : InSeq(h, EmittedCustomHooks(t))
                /\ EmittedForceReset(t) <=>
                    \/ HasResetComment(f)
                    \/ \E k \in 1..Len(custom) : DeclaringStatements(custom[k]) = {}

\* C10 witness: Counter calls useMyHook, which only the next statement
\* declares; the returned recording call lists useMyHook and passes false
C10_Witness ==
    /\ Done
    /\ Len(sf.statements) = 2
    /\ Len(SignedFunctions) = 1
    /\ SignedFunctions[1].stmt = 1
    /\ ForwardHooks(SignedFunctions[1]) = {str_useMyHook}
    /\ sf.statements[2].kind = "FunctionDeclaration"
    /\ EmittedCustomHooks(1) = <<str_useMyHook>>
    /\ RecordingArgs(1)[3].kind = "FalseKeyword"

-----------------------------------------------------------------------------
(* The binding key of a call site *)

\* The hook call sites of one direct statement with the binding key taken
\* only from a statement of exactly one declarator
SoleDeclaratorSitesOfStatement(s) ==
    IF s.kind = "VariableStatement"
    THEN LET hookDecls == SelectSeq(s.declarations, LAMBDA d : IsHookCall(d.initializer))
         IN  [k \in 1..Len(hookDecls) |->
                [call |-> hookDecls[k].initializer,
                 bindingKey |-> IF Len(s.declarations) = 1
                                THEN hookDecls[k].name.text ELSE <<>>]]
    ELSE IF s.kind = "ExpressionStatement" /\ IsHookCall(s.expression)
    THEN <<[call |-> s.expression, bindingKey |-> <<>>]>>
    ELSE <<>>

RECURSIVE SoleDeclaratorSitesOfBody(_)
SoleDeclaratorSitesOfBody(stmts) ==
    IF stmts = <<>> THEN <<>>
    ELSE SoleDeclaratorSitesOfStatement(Head(stmts)) \o SoleDeclaratorSitesOfBody(Tail(stmts))

SoleDeclaratorSitesOf(fn) ==
    IF fn.body.kind = "Block" THEN SoleDeclaratorSitesOfBody(fn.body.statements) ELSE <<>>

\* Whether the extracted call sites carry the binding keys of sites, each
\* followed by the call's seed-argument fragment, and make up the recorded key
HasBindingKeys(sites) ==
    LET calls == collectHookCalls(fnNode)
    IN  /\ Len(calls) = Len(sites)
        /\ \A k \in 1..Len(sites) :
            /\ calls[k].name = HookNameOf(sites[k].call)
            /\ calls[k].key = sites[k].bindingKey \o ArgKeyFragment(sites[k].call)
        /\ hookCallsSignature.key = hookCallsKey(calls)

\* "useOther{a}\nuseReducer{b(init)}\nuseMyHook{}"
TwoDeclaratorsKey == <<"u", "s", "e", "O", "t", "h", "e", "r", "{", "a", "}", "\n", "u", "s", "e", "R", "e", "d", "u", "c", "e", "r", "{", "b", "(", "i", "n", "i", "t", ")", "}", "\n", "u", "s", "e", "M", "y", "H", "o", "o", "k", "{", "}">>

\* C11 as stated: the binding key of every extracted call site is the text
\* of the binding pattern when the call is the initializer of the only
\* declarator of its variable statement, and is empty otherwise (a statement
\* of two or more declarators, a bare expression statement)
C11_BindingKeySoleDeclaratorOnly ==
    (Analysed /\ hookCallsSignature # null) => HasBindingKeys(SoleDeclaratorSitesOf(fnNode))

\* C11 amended: the binding key of every extracted call site is the text of
\* the binding (identifier or destructuring pattern) of the declarator the
\* call initializes, however many declarators its variable statement has,
\* and is empty only for a bare expression-statement call
C11_BindingKeyOfDeclarator ==
    (Analysed /\ hookCallsSignature # null) => HasBindingKeys(CallSitesOf(fnNode))

\* C11 witness: `const a = useOther(), b = React.useReducer(r, init);
\* useMyHook();` has been analysed; both declarators keep their binding text
\* and the bare call has none
C11_Witness ==
    /\ Analysed
    /\ fnNode.body.kind = "Block"
    /\ fnNode.body.statements = <<stmtTwoDeclarators, stmtUseMyHook>>
    /\ hookCallsSignature # null
    /\ hookCallsSignature.key = TwoDeclaratorsKey

-----------------------------------------------------------------------------
(* Declarations that do not fit the expected shape *)

\* The top-level functions whose declaration does not fit the expected
\* shape: the binding is not a single identifier (a destructuring pattern, a
\* function declaration without a name), or the function has no body
IsShapeMismatch(f) == ~IsNamed(f) \/ f.fn.body = undefined

ShapeMismatches == SelectSeq(TopFunctions, IsShapeMismatch)

\* C12: transform() never aborts because of a declaration's shape: every
\* top-level declaration that does not fit the expected shape (destructuring
\* binding, function declaration without a name, function declaration
\* without a body) is skipped, so it never gets a signature, and the output
\* is returned with the declaration unmodified, also when its body has hook calls
C12_ShapeMismatchSkipped ==
    /\ pc # "threw"
    /\ \A k \in 1..Len(ShapeMismatches) :
        fnKey(ShapeMismatches[k].stmt, ShapeMismatches[k].decl) \notin DOMAIN hookCalls
    /\ Done =>
        \A k \in 1..Len(ShapeMismatches) :
            LET f == ShapeMismatches[k]
            IN  IF f.decl = 0 THEN OutputFunction(f) = f.fn
                ELSE OutputDeclaration(f) = sf.statements[f.stmt].declarations[f.decl]

====
